---- MODULE Spec2Model ----
(***************************************************************************)
(* Model of risk_normalization.cpp: the Monte Carlo safe-f engine.         *)
(*                                                                         *)
(* Every `double` of the program is a binary floating-point number         *)
(* [m |-> mantissa, e |-> exponent] standing for m * 2^e, kept in the      *)
(* canonical form "m odd, or m = 0 and e = 0".  Every arithmetic operation *)
(* rounds its exact result to MantissaBits significant bits, ties to even, *)
(* as IEEE-754 does with 53 bits.  The exponent is unbounded: no value of  *)
(* the explored runs leaves the exponent range of a double.                *)
(***************************************************************************)
EXTENDS Integers, Sequences, FiniteSets, TLC

\* Significant bits of the model's floating-point format (53 for a double).
MantissaBits == 5

-----------------------------------------------------------------------------
(* Floating-point arithmetic                                               *)

Pow2(n) == 2 ^ n

RECURSIVE BitLen(_)
BitLen(n) == IF n <= 0 THEN 0 ELSE 1 + BitLen(n \div 2)

AbsInt(n) == IF n < 0 THEN -n ELSE n

SignInt(n) == IF n < 0 THEN -1 ELSE IF n = 0 THEN 0 ELSE 1

MinInt(a, b) == IF a <= b THEN a ELSE b

RECURSIVE Norm(_, _)
Norm(m, e) ==
    IF m = 0 THEN [m |-> 0, e |-> 0]
    ELSE IF m % 2 = 0 THEN Norm(m \div 2, e + 1)
    ELSE [m |-> m, e |-> e]

\* The float nearest to n * 2^e, ties to the even mantissa.
RoundNE(n, e) ==
    LET a == AbsInt(n)
        len == BitLen(a)
    IN  IF len <= MantissaBits THEN Norm(n, e)
        ELSE LET s == len - MantissaBits
                 q == a \div Pow2(s)
                 r == a % Pow2(s)
                 h == Pow2(s - 1)
                 up == r > h \/ (r = h /\ q % 2 = 1)
             IN  Norm(SignInt(n) * (IF up THEN q + 1 ELSE q), e + s)

\* Position of the leading bit of a non-zero float.
Msb(x) == x.e + BitLen(AbsInt(x.m))

F0 == [m |-> 0, e |-> 0]

FNeg(x) == [m |-> -x.m, e |-> x.e]

FAbs(x) == [m |-> AbsInt(x.m), e |-> x.e]

\* x + y, rounded.  An addend below a quarter of the other's last place
\* cannot change the rounded sum.
FAdd(x, y) ==
    IF x.m = 0 THEN y
    ELSE IF y.m = 0 THEN x
    ELSE IF Msb(x) - Msb(y) > MantissaBits + 3 THEN x
    ELSE IF Msb(y) - Msb(x) > MantissaBits + 3 THEN y
    ELSE LET e == MinInt(x.e, y.e)
         IN  RoundNE(x.m * Pow2(x.e - e) + y.m * Pow2(y.e - e), e)

FSub(x, y) == FAdd(x, FNeg(y))

FMul(x, y) == RoundNE(x.m * y.m, x.e + y.e)

\* (a * 2^ea) / (b * 2^eb) for integers a and b # 0, rounded once: the
\* quotient is taken to MantissaBits + 2 bits at least and a sticky bit
\* records a non-zero remainder.
DivRound(a, ea, b, eb) ==
    LET k == MantissaBits + 2 + BitLen(AbsInt(b))
        q == (AbsInt(a) * Pow2(k)) \div AbsInt(b)
        r == (AbsInt(a) * Pow2(k)) % AbsInt(b)
        n == 2 * q + (IF r = 0 THEN 0 ELSE 1)
    IN  RoundNE(SignInt(a) * SignInt(b) * n, ea - eb - k - 1)

\* x / y for y # 0.
FDiv(x, y) == DivRound(x.m, x.e, y.m, y.e)

\* The double a decimal literal num/den denotes.
Lit(num, den) == DivRound(num, 0, den, 0)

\* static_cast<double>(n) of an integer.
FromInt(n) == RoundNE(n, 0)

\* x < y, exactly.
FLess(x, y) ==
    LET sx == SignInt(x.m)
        sy == SignInt(y.m)
    IN  IF sx # sy THEN sx < sy
        ELSE IF sx = 0 THEN FALSE
        ELSE IF Msb(x) # Msb(y)
             THEN IF sx > 0 THEN Msb(x) < Msb(y) ELSE Msb(x) > Msb(y)
        ELSE LET e == MinInt(x.e, y.e)
             IN  x.m * Pow2(x.e - e) < y.m * Pow2(y.e - e)

FLeq(x, y) == ~FLess(y, x)

\* Largest r with r * r <= n, searched in lo..hi.
RECURSIVE ISqrt(_, _, _)
ISqrt(n, lo, hi) ==
    IF lo >= hi THEN lo
    ELSE LET mid == (lo + hi + 1) \div 2
         IN  IF mid * mid <= n THEN ISqrt(n, mid, hi) ELSE ISqrt(n, lo, mid - 1)

\* std::sqrt(x) for x >= 0, correctly rounded.
FSqrt(x) ==
    IF x.m = 0 THEN F0
    ELSE LET odd == x.e % 2 = 1
             m == IF odd THEN 2 * x.m ELSE x.m
             e == IF odd THEN x.e - 1 ELSE x.e
             k == MantissaBits + 2
             n == m * Pow2(2 * k)
             s == ISqrt(n, 0, Pow2(BitLen(n) \div 2 + 1))
             sticky == IF s * s = n THEN 0 ELSE 1
         IN  RoundNE(2 * s + sticky, (e \div 2) - k - 1)

\* std::pow(x, y) for x > 0, taken as rounded to nearest, for the exponents
\* the explored forecasts give: a positive whole number (the exact power,
\* rounded once) or 1/2 (the square root).
RECURSIVE IntPow(_, _)
IntPow(b, n) == IF n <= 0 THEN 1 ELSE b * IntPow(b, n - 1)

FPow(x, y) ==
    IF y = [m |-> 1, e |-> -1] THEN FSqrt(x)
    ELSE RoundNE(IntPow(x.m, y.m * Pow2(y.e)), x.e * y.m * Pow2(y.e))

-----------------------------------------------------------------------------
(* The functions of risk_normalization.cpp                                 *)

\* std::accumulate(data.begin(), data.end(), 0.0)
RECURSIVE Accumulate(_, _)
Accumulate(data, sum) ==
    IF data = <<>> THEN sum ELSE Accumulate(Tail(data), FAdd(sum, Head(data)))

computeMean(data) ==
    IF data = <<>> THEN F0
    ELSE FDiv(Accumulate(data, F0), FromInt(Len(data)))

RECURSIVE SquaredDeviations(_, _, _)
SquaredDeviations(data, mean, accum) ==
    IF data = <<>> THEN accum
    ELSE LET d == FSub(Head(data), mean)
         IN  SquaredDeviations(Tail(data), mean, FAdd(accum, FMul(d, d)))

computeStdDev(data, mean) ==
    IF Len(data) < 2 THEN F0
    ELSE FSqrt(FDiv(SquaredDeviations(data, mean, F0), FromInt(Len(data) - 1)))

computeStatistics(data) ==
    LET mean == computeMean(data)
    IN  [mean |-> mean, stdev |-> computeStdDev(data, mean)]

\* The loop of calculateDrawdown from element i on (peak > 0 throughout,
\* since it starts at equity_curve[0] and only grows).
RECURSIVE DrawdownScan(_, _, _, _)
DrawdownScan(equity_curve, i, peak, max_drawdown) ==
    IF i > Len(equity_curve) THEN max_drawdown
    ELSE LET equity == equity_curve[i]
             peak1 == IF FLess(peak, equity) THEN equity ELSE peak
             drawdown == FDiv(FSub(peak1, equity), peak1)
             max1 == IF FLess(max_drawdown, drawdown) THEN drawdown
                     ELSE max_drawdown
         IN  DrawdownScan(equity_curve, i + 1, peak1, max1)

calculateDrawdown(equity_curve) ==
    DrawdownScan(equity_curve, 1, equity_curve[1], F0)

\* Faulty variant of calculateCAGR: final_equity is not tested.
calculateCAGR_NoFinalCheck(initial_equity, final_equity, years) ==
    IF FLeq(initial_equity, F0) \/ FLeq(years, F0)
    THEN F0
    ELSE FMul(FSub(FPow(FDiv(final_equity, initial_equity),
                        FDiv(FromInt(1), years)),
                   FromInt(1)),
              FromInt(100))

calculateCAGR(initial_equity, final_equity, years) ==
    IF FLeq(initial_equity, F0) \/ FLeq(final_equity, F0) \/ FLeq(years, F0)
    THEN F0
    ELSE FMul(FSub(FPow(FDiv(final_equity, initial_equity),
                        FDiv(FromInt(1), years)),
                   FromInt(1)),
              FromInt(100))

(* The generator as the functions see it: the number of times it was       *)
(* seeded, the count of index draws made so far, and the indices its       *)
(* stream yields next (fixed by the seed, unknown to the program).         *)
\* std::uniform_int_distribution<> dist(0, trades.size() - 1): the values a
\* draw can yield.  With an empty series the upper limit is -1, the
\* distribution's precondition a <= b is broken and a draw yields an
\* index outside the vector.
WildIndices == {-1, 1}

DistRange(trades) ==
    IF trades = <<>> THEN WildIndices ELSE 0 .. (Len(trades) - 1)

\* int idx = dist(rng)
Draw(g) ==
    [idx |-> Head(g.ahead),
     rng |-> [g EXCEPT !.pos = @ + 1, !.ahead = Tail(@)]]

\* trades[idx]; an index outside the vector reads whatever the heap holds.
TradeAt(trades, idx, heap) ==
    IF idx \in 0 .. (Len(trades) - 1) THEN trades[idx + 1] ELSE heap[idx]

\* Faulty variant of EquitySteps: the whole equity is traded, whatever the
\* fraction.
RECURSIVE EquitySteps_FullStake(_, _, _, _, _, _)
EquitySteps_FullStake(trades, fraction, number_trades_in_forecast, equity_curve, g, heap) ==
    IF Len(equity_curve) >= number_trades_in_forecast + 1
    THEN [equity_curve |-> equity_curve, rng |-> g]
    ELSE LET d == Draw(g)
             prev == equity_curve[Len(equity_curve)]
             trade_return == FMul(TradeAt(trades, d.idx, heap), prev)
         IN  EquitySteps_FullStake(trades, fraction, number_trades_in_forecast,
                                   Append(equity_curve, FAdd(prev, trade_return)),
                                   d.rng, heap)

\* The loop of make_one_equity_sequence: equity_curve holds elements 0..i-1.
RECURSIVE EquitySteps(_, _, _, _, _, _)
EquitySteps(trades, fraction, number_trades_in_forecast, equity_curve, g, heap) ==
    IF Len(equity_curve) >= number_trades_in_forecast + 1
    THEN [equity_curve |-> equity_curve, rng |-> g]
    ELSE LET d == Draw(g)
             prev == equity_curve[Len(equity_curve)]
             trade_return ==
                 FMul(FMul(TradeAt(trades, d.idx, heap), fraction), prev)
         IN  EquitySteps(trades, fraction, number_trades_in_forecast,
                         Append(equity_curve, FAdd(prev, trade_return)),
                         d.rng, heap)

make_one_equity_sequence(trades, fraction, number_trades_in_forecast, initial_capital, g, heap) ==
    LET r == EquitySteps(trades, fraction, number_trades_in_forecast,
                         <<initial_capital>>, g, heap)
    IN  [equity_curve |-> r.equity_curve,
         max_drawdown |-> calculateDrawdown(r.equity_curve),
         rng |-> r.rng]

\* The loop of analyze_distribution_of_drawdown from sample i on; samples
\* keeps each structured binding [equity, max_drawdown] of the loop body.
RECURSIVE DrawdownSamples(_, _, _, _, _, _, _, _, _, _)
DrawdownSamples(trades, fraction, number_trades_in_forecast, initial_capital, drawdown_tolerance, number_equity_in_CDF, i, acc, g, heap) ==
    IF i >= number_equity_in_CDF THEN [acc EXCEPT !.rng = g]
    ELSE LET s == make_one_equity_sequence(trades, fraction,
                      number_trades_in_forecast, initial_capital, g, heap)
             hit == FLess(drawdown_tolerance, s.max_drawdown)
         IN  DrawdownSamples(trades, fraction, number_trades_in_forecast,
                 initial_capital, drawdown_tolerance, number_equity_in_CDF,
                 i + 1,
                 [count_exceed |-> acc.count_exceed + (IF hit THEN 1 ELSE 0),
                  samples |-> Append(acc.samples,
                                 [equity |-> s.equity_curve,
                                  max_drawdown |-> s.max_drawdown]),
                  rng |-> s.rng],
                 s.rng, heap)

analyze_distribution_of_drawdown(trades, fraction, number_trades_in_forecast, initial_capital, drawdown_tolerance, number_equity_in_CDF, g, heap) ==
    LET r == DrawdownSamples(trades, fraction, number_trades_in_forecast,
                 initial_capital, drawdown_tolerance, number_equity_in_CDF, 0,
                 [count_exceed |-> 0, samples |-> <<>>, rng |-> g], g, heap)
    IN  [tail_risk |-> FDiv(FromInt(r.count_exceed),
                            FromInt(number_equity_in_CDF)),
         count_exceed |-> r.count_exceed,
         samples |-> r.samples,
         rng |-> r.rng]

\* The loop of lines 187-199 from sample i on: one simulated curve and its
\* CAGR per turn.  samples keeps equity_curve.back() and the CAGR pushed.
RECURSIVE CARSamples(_, _, _, _, _, _, _, _, _, _)
CARSamples(trades, fraction, number_trades_in_forecast, initial_capital, number_days_in_forecast, number_equity_in_CDF, i, samples, g, heap) ==
    IF i >= number_equity_in_CDF THEN [samples |-> samples, rng |-> g]
    ELSE LET s == make_one_equity_sequence(trades, fraction,
                      number_trades_in_forecast, initial_capital, g, heap)
             years == FDiv(FromInt(number_days_in_forecast), FromInt(252))
             back == s.equity_curve[Len(s.equity_curve)]
             CAGR == calculateCAGR(initial_capital, back, years)
         IN  CARSamples(trades, fraction, number_trades_in_forecast,
                 initial_capital, number_days_in_forecast,
                 number_equity_in_CDF, i + 1,
                 Append(samples, [final |-> back, CAGR |-> CAGR]),
                 s.rng, heap)

\* std::sort(CAR_list.begin(), CAR_list.end()): ascending by operator<.
RECURSIVE InsertSorted(_, _)
InsertSorted(sorted, x) ==
    IF sorted = <<>> THEN <<x>>
    ELSE IF FLess(x, Head(sorted)) THEN <<x>> \o sorted
    ELSE <<Head(sorted)>> \o InsertSorted(Tail(sorted), x)

RECURSIVE SortAscending(_)
SortAscending(list) ==
    IF list = <<>> THEN <<>>
    ELSE InsertSorted(SortAscending(Tail(list)), Head(list))

\* std::ceil(x) as an integer.
CeilInt(x) ==
    IF x.e >= 0 THEN x.m * Pow2(x.e) ELSE -((-x.m) \div Pow2(-x.e))

\* Faulty variant of PercentileIndex: the rank itself is used as the index.
PercentileIndex_OffByOne(size) ==
    MinInt(CeilInt(FMul(Lit(1, 4), FromInt(size))), size - 1)

\* Lines 203-204, the 0-based index of the 25th percentile in a sorted list
\* of size >= 1 (no size_t wrap-around: the ceiling is at least 1).
PercentileIndex(size) ==
    MinInt(CeilInt(FMul(Lit(1, 4), FromInt(size))) - 1, size - 1)

\* Lines 202-205.
Percentile25(CAR_values) ==
    LET sorted == SortAscending(CAR_values)
    IN  [CAR_list |-> sorted, CAR25 |-> sorted[PercentileIndex(Len(sorted)) + 1]]

\* Faulty variant of Midpoint: the sum is not halved.
Midpoint_NotHalved(lower, upper) == FAdd(lower, upper)

\* Line 162.
Midpoint(lower, upper) == FDiv(FAdd(lower, upper), FromInt(2))

\* Faulty variant of WithinTolerance: the difference is not made absolute.
WithinTolerance_Signed(risk, tail_pct, tolerance) ==
    FLess(FSub(risk, FDiv(tail_pct, FromInt(100))), tolerance)

\* Line 173.
WithinTolerance(risk, tail_pct, tolerance) ==
    FLess(FAbs(FSub(risk, FDiv(tail_pct, FromInt(100)))), tolerance)

\* Faulty variant of BisectionUpdate: the wrong bound moves.
BisectionUpdate_Swapped(lower, upper, mid, risk, tail_pct, tolerance) ==
    IF FLess(FAbs(FSub(risk, FDiv(tail_pct, FromInt(100)))), tolerance)
    THEN [done |-> TRUE, lower_bound |-> lower, upper_bound |-> upper]
    ELSE IF FLess(FDiv(tail_pct, FromInt(100)), risk)
    THEN [done |-> FALSE, lower_bound |-> mid, upper_bound |-> upper]
    ELSE [done |-> FALSE, lower_bound |-> lower, upper_bound |-> mid]

\* Lines 173-179: what one bisection turn does to done and the bounds.
BisectionUpdate(lower, upper, mid, risk, tail_pct, tolerance) ==
    IF WithinTolerance(risk, tail_pct, tolerance)
    THEN [done |-> TRUE, lower_bound |-> lower, upper_bound |-> upper]
    ELSE IF FLess(FDiv(tail_pct, FromInt(100)), risk)
    THEN [done |-> FALSE, lower_bound |-> lower, upper_bound |-> mid]
    ELSE [done |-> FALSE, lower_bound |-> mid, upper_bound |-> upper]

\* Line 145.
desired_accuracy == Lit(3, 1000)

\* Line 152.
max_iterations == 1000

-----------------------------------------------------------------------------
(* State                                                                   *)

VARIABLES
    pc,                       \* position in the program
    trades, number_days_in_forecast, number_trades_in_forecast,
    initial_capital, tail_percentile, drawdown_tolerance,
    number_equity_in_CDF, number_repetitions,   \* the arguments
    safe_f_mean, safe_f_stdev, CAR25_mean, CAR25_stdev,  \* the results
    safe_f_list, CAR25_list,  \* lines 143-144
    rng,                      \* line 147: [seeded, pos]
    rep,                      \* line 149
    fraction, iteration, done, lower_bound, upper_bound, tail_risk,
    CAR_list, CAR25,          \* lines 186, 205
    stdout,                   \* the CAR25 values written at line 209
    pos_at_rep_start,         \* rng.pos when the current repetition began
    dd_samples,               \* the [equity, max_drawdown] pairs of an estimate
    car_samples,              \* the [final, CAGR] pairs of the last CAR loop
    cagr_args, cagr_result    \* a direct call of calculateCAGR

args == <<trades, number_days_in_forecast, number_trades_in_forecast, initial_capital, tail_percentile, drawdown_tolerance, number_equity_in_CDF, number_repetitions>>

results == <<safe_f_mean, safe_f_stdev, CAR25_mean, CAR25_stdev>>

solver == <<fraction, iteration, done, lower_bound, upper_bound, tail_risk>>

vars == <<pc, args, results, safe_f_list, CAR25_list, rng, rep, solver, CAR_list, CAR25, stdout, pos_at_rep_start, dd_samples, car_samples, cagr_args, cagr_result>>

-----------------------------------------------------------------------------
(* Inputs explored                                                         *)

\* Longest path, largest sample count and repetition count.
MaxPath == 2

MaxSamples == 2

MaxRepetitions == 2

Loss == Lit(-1, 2)

SmallLoss == Lit(-1, 4)

Gain == Lit(1, 2)

\* The series explored; the empty one is the invalid input.
TradeSeriesSet == {<<>>, <<Loss>>, <<Gain>>, <<Loss, Gain>>, <<Loss, SmallLoss>>}

\* What an out-of-range read can find, and the heaps it can read from.
GarbageValues == {Loss, Gain}

Heaps(series) ==
    IF series = <<>> THEN [WildIndices -> GarbageValues]
    ELSE {[i \in WildIndices |-> F0]}

\* The index streams a generator can yield for n draws.
Streams(series, n) == [1 .. n -> DistRange(series)]

\* Index draws per run allowed to a series whose draws differ in outcome.
RandomBudget == 4

\* main's initial_capital, tail_percentile and drawdown_tolerance, and a
\* tail_percentile that a tail risk of 0 satisfies.
CapitalSet == {FromInt(100000)}

TailPercentileSet == {Lit(1, 4), FromInt(5)}

ToleranceSet == {Lit(1, 10)}

\* A tail risk of 5% is never met with so few samples, and each repetition
\* then takes all max_iterations turns: it is explored for one repetition,
\* and with random outcomes for one sample of one trade.
Explored ==
    LET draws == number_equity_in_CDF * number_trades_in_forecast * number_repetitions
    IN  /\ Len(trades) # 1 => draws <= RandomBudget
        /\ tail_percentile = FromInt(5) => number_repetitions = 1
        /\ (tail_percentile = FromInt(5) /\ Len(trades) # 1) => (draws = 1 /\ trades = <<Loss, SmallLoss>>)

-----------------------------------------------------------------------------
(* The program                                                             *)

Idle ==
    /\ safe_f_list = <<>> /\ CAR25_list = <<>>
    /\ rng = [seeded |-> 0, pos |-> 0]
    /\ rep = 0 /\ fraction = F0 /\ iteration = 0 /\ done = FALSE
    /\ lower_bound = F0 /\ upper_bound = F0 /\ tail_risk = F0
    /\ CAR_list = <<>> /\ CAR25 = F0 /\ stdout = <<>>
    /\ pos_at_rep_start = 0 /\ dd_samples = <<>> /\ car_samples = <<>>
    /\ safe_f_mean = F0 /\ safe_f_stdev = F0
    /\ CAR25_mean = F0 /\ CAR25_stdev = F0

\* The program starts in main, or a caller enters risk_normalization itself.
Init ==
    /\ pc \in {"main", "call"}
    /\ trades \in TradeSeriesSet
    /\ number_days_in_forecast = 504
    /\ number_trades_in_forecast \in 1 .. MaxPath
    /\ initial_capital \in CapitalSet
    /\ tail_percentile \in TailPercentileSet
    /\ drawdown_tolerance \in ToleranceSet
    /\ number_equity_in_CDF \in 1 .. MaxSamples
    /\ number_repetitions \in 1 .. MaxRepetitions
    /\ Explored
    /\ cagr_args = <<>> /\ cagr_result = F0
    /\ Idle

\* main, lines 223-227 and 254: no trades, no run.
Main ==
    /\ pc = "main"
    /\ pc' = IF trades = <<>> THEN "exit1" ELSE "call"
    /\ UNCHANGED <<args, results, safe_f_list, CAR25_list, rng, rep, solver, CAR_list, CAR25, stdout, pos_at_rep_start, dd_samples, car_samples, cagr_args, cagr_result>>

\* Lines 143-149: the lists are empty, the generator is seeded, rep = 0.
Enter ==
    /\ pc = "call"
    /\ safe_f_list' = <<>>
    /\ CAR25_list' = <<>>
    /\ rng' = [seeded |-> rng.seeded + 1, pos |-> 0]
    /\ rep' = 0
    /\ pc' = "rep"
    /\ UNCHANGED <<args, results, solver, CAR_list, CAR25, stdout, pos_at_rep_start, dd_samples, car_samples, cagr_args, cagr_result>>

\* Faulty variant of RepBegin: the generator is seeded in every repetition.
RepBegin_Reseeding ==
    /\ pc = "rep"
    /\ rep < number_repetitions
    /\ fraction' = FromInt(1)
    /\ iteration' = 0
    /\ done' = FALSE
    /\ lower_bound' = F0
    /\ upper_bound' = FromInt(10)
    /\ tail_risk' = F0
    /\ rng' = [seeded |-> rng.seeded + 1, pos |-> 0]
    /\ pos_at_rep_start' = 0
    /\ pc' = "bisect"
    /\ UNCHANGED <<args, results, safe_f_list, CAR25_list, rep, CAR_list, CAR25, stdout, dd_samples, car_samples, cagr_args, cagr_result>>

\* Lines 149-159: a repetition begins.
RepBegin ==
    /\ pc = "rep"
    /\ rep < number_repetitions
    /\ fraction' = FromInt(1)
    /\ iteration' = 0
    /\ done' = FALSE
    /\ lower_bound' = F0
    /\ upper_bound' = FromInt(10)
    /\ tail_risk' = F0
    /\ pos_at_rep_start' = rng.pos
    /\ pc' = "bisect"
    /\ UNCHANGED <<args, results, safe_f_list, CAR25_list, rng, rep, CAR_list, CAR25, stdout, dd_samples, car_samples, cagr_args, cagr_result>>

\* Lines 161-181: one turn of the bisection loop.
Bisect ==
    /\ pc = "bisect"
    /\ ~done /\ iteration < max_iterations
    /\ \E ahead \in Streams(trades, number_equity_in_CDF * number_trades_in_forecast), heap \in Heaps(trades) :
       \E mid \in {Midpoint(lower_bound, upper_bound)} :
       \E r \in {analyze_distribution_of_drawdown(trades, mid, number_trades_in_forecast, initial_capital, drawdown_tolerance, number_equity_in_CDF, [seeded |-> rng.seeded, pos |-> rng.pos, ahead |-> ahead], heap)} :
       \E u \in {BisectionUpdate(lower_bound, upper_bound, mid, r.tail_risk, tail_percentile, desired_accuracy)} :
             /\ fraction' = mid
             /\ tail_risk' = r.tail_risk
             /\ rng' = [seeded |-> r.rng.seeded, pos |-> r.rng.pos]
             /\ done' = u.done
             /\ lower_bound' = u.lower_bound
             /\ upper_bound' = u.upper_bound
    /\ iteration' = iteration + 1
    /\ UNCHANGED <<pc, args, results, safe_f_list, CAR25_list, rep, CAR_list, CAR25, stdout, pos_at_rep_start, dd_samples, car_samples, cagr_args, cagr_result>>

\* Line 183: the loop is left and the fraction recorded.
RecordSafeF ==
    /\ pc = "bisect"
    /\ ~(~done /\ iteration < max_iterations)
    /\ safe_f_list' = Append(safe_f_list, fraction)
    /\ pc' = "car"
    /\ UNCHANGED <<args, results, CAR25_list, rng, rep, solver, CAR_list, CAR25, stdout, pos_at_rep_start, dd_samples, car_samples, cagr_args, cagr_result>>

\* Lines 186-206: the CAR loop, the sort and the 25th percentile.
SimulateCAR ==
    /\ pc = "car"
    /\ \E ahead \in Streams(trades, number_equity_in_CDF * number_trades_in_forecast), heap \in Heaps(trades) :
       \E r \in {CARSamples(trades, fraction, number_trades_in_forecast, initial_capital, number_days_in_forecast, number_equity_in_CDF, 0, <<>>, [seeded |-> rng.seeded, pos |-> rng.pos, ahead |-> ahead], heap)} :
       \E p \in {Percentile25([i \in 1 .. Len(r.samples) |-> r.samples[i].CAGR])} :
             /\ car_samples' = r.samples
             /\ rng' = [seeded |-> r.rng.seeded, pos |-> r.rng.pos]
             /\ CAR_list' = p.CAR_list
             /\ CAR25' = p.CAR25
             /\ CAR25_list' = Append(CAR25_list, p.CAR25)
    /\ pc' = "print"
    /\ UNCHANGED <<args, results, safe_f_list, rep, solver, stdout, pos_at_rep_start, dd_samples, cagr_args, cagr_result>>

\* Faulty variant of PrintCAR25: nothing is written.
PrintCAR25_Silent ==
    /\ pc = "print"
    /\ rep' = rep + 1
    /\ pc' = "rep"
    /\ UNCHANGED <<args, results, safe_f_list, CAR25_list, rng, solver, CAR_list, CAR25, stdout, pos_at_rep_start, dd_samples, car_samples, cagr_args, cagr_result>>

\* Lines 209-210 and the ++rep of line 149.
PrintCAR25 ==
    /\ pc = "print"
    /\ stdout' = Append(stdout, CAR25)
    /\ rep' = rep + 1
    /\ pc' = "rep"
    /\ UNCHANGED <<args, results, safe_f_list, CAR25_list, rng, solver, CAR_list, CAR25, pos_at_rep_start, dd_samples, car_samples, cagr_args, cagr_result>>

\* Lines 212-217: the loop is over, the statistics are computed.
Finish ==
    /\ pc = "rep"
    /\ ~(rep < number_repetitions)
    /\ \E f \in {computeStatistics(safe_f_list)}, c \in {computeStatistics(CAR25_list)} :
           /\ safe_f_mean' = f.mean
           /\ safe_f_stdev' = f.stdev
           /\ CAR25_mean' = c.mean
           /\ CAR25_stdev' = c.stdev
    /\ pc' = "return"
    /\ UNCHANGED <<args, safe_f_list, CAR25_list, rng, rep, solver, CAR_list, CAR25, stdout, pos_at_rep_start, dd_samples, car_samples, cagr_args, cagr_result>>

\* Lines 86-90 with an empty series: the out-of-range draw and read are
\* undefined; the run may end in a fault instead of reading the heap.
Fault ==
    /\ trades = <<>>
    /\ \/ pc = "bisect" /\ ~done /\ iteration < max_iterations
       \/ pc = "car"
    /\ pc' = "fault"
    /\ UNCHANGED <<args, results, safe_f_list, CAR25_list, rng, rep, solver, CAR_list, CAR25, stdout, pos_at_rep_start, dd_samples, car_samples, cagr_args, cagr_result>>

Next ==
    \/ Main
    \/ Enter
    \/ RepBegin
    \/ Bisect
    \/ RecordSafeF
    \/ SimulateCAR
    \/ PrintCAR25
    \/ Finish
    \/ Fault

Spec == Init /\ [][Next]_vars

-----------------------------------------------------------------------------
(* The Drawdown-Tail Estimator on its own: analyze_distribution_of_drawdown *)
(* applied to inputs drawn from bounded sets.                              *)

FractionSet == {F0, Lit(1, 4), FromInt(1), FromInt(5), FromInt(10)}

InitEstimator ==
    /\ pc = "estimate"
    /\ trades \in TradeSeriesSet \ {<<>>}
    /\ number_days_in_forecast = 504
    /\ number_trades_in_forecast \in 1 .. MaxPath
    /\ initial_capital \in {FromInt(1), FromInt(3), FromInt(100000)}
    /\ tail_percentile = FromInt(5)
    /\ drawdown_tolerance \in {Lit(1, 10), Lit(1, 2)}
    /\ number_equity_in_CDF \in 1 .. MaxSamples
    /\ number_repetitions = 1
    /\ Len(trades) # 1 => number_equity_in_CDF * number_trades_in_forecast <= RandomBudget
    /\ cagr_args = <<>> /\ cagr_result = F0
    /\ safe_f_list = <<>> /\ CAR25_list = <<>>
    /\ rng = [seeded |-> 1, pos |-> 0]
    /\ rep = 0 /\ fraction \in FractionSet /\ iteration = 0 /\ done = FALSE
    /\ lower_bound = F0 /\ upper_bound = FromInt(10) /\ tail_risk = F0
    /\ CAR_list = <<>> /\ CAR25 = F0 /\ stdout = <<>>
    /\ pos_at_rep_start = 0 /\ dd_samples = <<>> /\ car_samples = <<>>
    /\ safe_f_mean = F0 /\ safe_f_stdev = F0
    /\ CAR25_mean = F0 /\ CAR25_stdev = F0

\* Lines 99-122, keeping the pairs the loop body binds.
Estimate ==
    /\ pc = "estimate"
    /\ \E ahead \in Streams(trades, number_equity_in_CDF * number_trades_in_forecast), heap \in Heaps(trades) :
       \E r \in {analyze_distribution_of_drawdown(trades, fraction, number_trades_in_forecast, initial_capital, drawdown_tolerance, number_equity_in_CDF, [seeded |-> rng.seeded, pos |-> rng.pos, ahead |-> ahead], heap)} :
             /\ tail_risk' = r.tail_risk
             /\ dd_samples' = r.samples
             /\ rng' = [seeded |-> r.rng.seeded, pos |-> r.rng.pos]
    /\ pc' = "estimated"
    /\ UNCHANGED <<args, results, safe_f_list, CAR25_list, rep, fraction, iteration, done, lower_bound, upper_bound, CAR_list, CAR25, stdout, pos_at_rep_start, car_samples, cagr_args, cagr_result>>

NextEstimator == Estimate

SpecEstimator == InitEstimator /\ [][NextEstimator]_vars

-----------------------------------------------------------------------------
(* calculateCAGR on its own, and the CAR loop at a given fraction.         *)

EquitySet == {FromInt(-1), F0, FromInt(1), Lit(121, 100), FromInt(4)}

YearsSet == {FromInt(-1), F0, Lit(1, 2), FromInt(1), FromInt(2)}

InitCAGR ==
    /\ \/ /\ pc = "cagr"
          /\ cagr_args \in [initial_equity : EquitySet, final_equity : EquitySet, years : YearsSet]
          /\ trades = <<Loss>> /\ fraction = F0
          /\ number_days_in_forecast = 504
          /\ number_trades_in_forecast = 1
          /\ number_equity_in_CDF = 1
       \/ /\ pc = "car"
          /\ cagr_args = <<>>
          /\ trades \in TradeSeriesSet \ {<<>>}
          /\ fraction \in FractionSet
          /\ number_days_in_forecast \in {-252, 0, 126, 252, 504}
          /\ number_trades_in_forecast \in 1 .. MaxPath
          /\ number_equity_in_CDF \in 1 .. MaxSamples
          /\ Len(trades) # 1 => number_equity_in_CDF * number_trades_in_forecast <= RandomBudget
    /\ initial_capital = FromInt(100000)
    /\ tail_percentile = FromInt(5)
    /\ drawdown_tolerance = Lit(1, 10)
    /\ number_repetitions = 1
    /\ cagr_result = F0
    /\ safe_f_list = <<fraction>> /\ CAR25_list = <<>>
    /\ rng = [seeded |-> 1, pos |-> 0]
    /\ rep = 0 /\ iteration = 1 /\ done = TRUE
    /\ lower_bound = F0 /\ upper_bound = FromInt(10) /\ tail_risk = F0
    /\ CAR_list = <<>> /\ CAR25 = F0 /\ stdout = <<>>
    /\ pos_at_rep_start = 0 /\ dd_samples = <<>> /\ car_samples = <<>>
    /\ safe_f_mean = F0 /\ safe_f_stdev = F0
    /\ CAR25_mean = F0 /\ CAR25_stdev = F0

\* Lines 71-74.
CallCAGR ==
    /\ pc = "cagr"
    /\ cagr_result' = calculateCAGR(cagr_args.initial_equity, cagr_args.final_equity, cagr_args.years)
    /\ pc' = "cagr_done"
    /\ UNCHANGED <<args, results, safe_f_list, CAR25_list, rng, rep, solver, CAR_list, CAR25, stdout, pos_at_rep_start, dd_samples, car_samples, cagr_args>>

NextCAGR == CallCAGR \/ SimulateCAR

SpecCAGR == InitCAGR /\ [][NextCAGR]_vars

-----------------------------------------------------------------------------
(* The 25th percentile on its own: lines 202-206 on CAR lists drawn from   *)
(* bounded sets.                                                           *)

\* Longest CAR list drawn from CARValues; the fixtures are longer.
MaxCount == 5

CARValues == {FromInt(1), FromInt(2), FromInt(3)}

CARFixtures ==
    {[i \in 1 .. 8 |-> FromInt(i)], [i \in 1 .. 8 |-> FromInt(9 - i)],
     [i \in 1 .. 9 |-> FromInt(IF i % 2 = 0 THEN i ELSE 10 - i)]}

InitCAR25 ==
    /\ pc = "percentile"
    /\ CAR_list \in CARFixtures \cup UNION {[1 .. n -> CARValues] : n \in 1 .. MaxCount}
    /\ trades = <<Loss>> /\ fraction = F0
    /\ number_days_in_forecast = 504
    /\ number_trades_in_forecast = 1
    /\ number_equity_in_CDF = Len(CAR_list)
    /\ initial_capital = FromInt(100000)
    /\ tail_percentile = FromInt(5)
    /\ drawdown_tolerance = Lit(1, 10)
    /\ number_repetitions = 1
    /\ cagr_args = <<>> /\ cagr_result = F0
    /\ safe_f_list = <<fraction>> /\ CAR25_list = <<>>
    /\ rng = [seeded |-> 1, pos |-> 0]
    /\ rep = 0 /\ iteration = 1 /\ done = TRUE
    /\ lower_bound = F0 /\ upper_bound = FromInt(10) /\ tail_risk = F0
    /\ CAR25 = F0 /\ stdout = <<>>
    /\ pos_at_rep_start = 0 /\ dd_samples = <<>> /\ car_samples = <<>>
    /\ safe_f_mean = F0 /\ safe_f_stdev = F0
    /\ CAR25_mean = F0 /\ CAR25_stdev = F0

\* Lines 202-206.
SortAndPick ==
    /\ pc = "percentile"
    /\ \E p \in {Percentile25(CAR_list)} :
             /\ CAR_list' = p.CAR_list
             /\ CAR25' = p.CAR25
             /\ CAR25_list' = Append(CAR25_list, p.CAR25)
    /\ pc' = "print"
    /\ UNCHANGED <<args, results, safe_f_list, rng, rep, solver, stdout, pos_at_rep_start, dd_samples, car_samples, cagr_args, cagr_result>>

NextCAR25 == SortAndPick

SpecCAR25 == InitCAR25 /\ [][NextCAR25]_vars

-----------------------------------------------------------------------------
(* Properties                                                              *)

Last(seq) == seq[Len(seq)]

\* Index draws one estimate or one CAR loop makes.
DrawsPerPass == number_equity_in_CDF * number_trades_in_forecast

\* tail_percentile / 100.0, as lines 173 and 175 compute it.
Target == FDiv(tail_percentile, FromInt(100))

\* |tail_risk - target| < desired_accuracy for the last estimate.
MetTolerance == FLess(FAbs(FSub(tail_risk, Target)), Lit(3, 1000))

\* The exact value of upper_bound - lower_bound, unrounded.
ExactWidth ==
    LET e == MinInt(lower_bound.e, upper_bound.e)
    IN  Norm(upper_bound.m * Pow2(upper_bound.e - e) - lower_bound.m * Pow2(lower_bound.e - e), e)

\* The double nearest (lower_bound + upper_bound) / 2.
ExactHalfSum ==
    LET e == MinInt(lower_bound.e, upper_bound.e)
    IN  RoundNE(lower_bound.m * Pow2(lower_bound.e - e) + upper_bound.m * Pow2(upper_bound.e - e), e - 1)

\* C1: the bisection loop of every repetition ends after at least 1 and at
\* most 1000 estimates (each turn makes one estimate of DrawsPerPass draws
\* and counts one iteration), and every fraction estimated, the one recorded
\* as the safe fraction included, lies in [0, 10].
C1_SolverTerminatesInRange ==
    /\ iteration <= max_iterations
    /\ pc \in {"bisect", "car"} => rng.pos - pos_at_rep_start = iteration * DrawsPerPass
    /\ pc = "bisect" => FLeq(F0, fraction) /\ FLeq(fraction, FromInt(10))
    /\ pc = "car" => /\ 1 <= iteration
                     /\ Last(safe_f_list) = fraction
    /\ \A i \in DOMAIN safe_f_list :
         FLeq(F0, safe_f_list[i]) /\ FLeq(safe_f_list[i], FromInt(10))

\* A valid run leaves the loop at the cap, never having met the tolerance.
C1_Witness ==
    /\ pc = "car" /\ trades # <<>>
    /\ iteration = max_iterations /\ ~done
    /\ FLess(F0, Last(safe_f_list))

\* C2 as stated: whenever the solver returns, the tail risk it last
\* estimated is within 0.003 of tail_percentile/100.
C2_ReturnsWithinAccuracy == pc = "car" => MetTolerance

\* C2 amended: the solver returns either with done set, and then the tail
\* risk estimated at the returned fraction is within 0.003 of the target, or
\* at the cap of 1000 iterations with the tolerance not met.
C2_WithinAccuracyUnlessCapped ==
    pc = "car" =>
        /\ Last(safe_f_list) = fraction
        /\ done => MetTolerance
        /\ ~done => iteration = max_iterations /\ ~MetTolerance

\* A valid run meets the tolerance after several turns.
C2_Witness ==
    /\ pc = "car" /\ trades # <<>>
    /\ done /\ iteration > 1 /\ MetTolerance

\* C9 as stated, its state part: lower_bound < upper_bound within [0, 10],
\* and the width is 10/2^k after k turns that did not meet the tolerance.
C9_StrictBoundsExactWidth ==
    pc = "bisect" =>
        /\ FLeq(F0, lower_bound) /\ FLess(lower_bound, upper_bound)
        /\ FLeq(upper_bound, FromInt(10))
        /\ ExactWidth = [m |-> 5, e |-> 1 - (iteration - (IF done THEN 1 ELSE 0))]

\* The bounds in a repetition: ordered within [0, 10], 0 and 10 at its
\* start, and 10/2^k apart while every midpoint so far is exact.
C9_Bounds ==
    pc = "bisect" =>
        /\ FLeq(F0, lower_bound) /\ FLeq(lower_bound, upper_bound)
        /\ FLeq(upper_bound, FromInt(10))
        /\ iteration = 0 => lower_bound = F0 /\ upper_bound = FromInt(10)
        /\ iteration - (IF done THEN 1 ELSE 0) <= MantissaBits - 3
             => ExactWidth = [m |-> 5, e |-> 1 - (iteration - (IF done THEN 1 ELSE 0))]

\* One turn of the loop: the fraction estimated is the double nearest the
\* midpoint; within tolerance the bounds stay and the loop stops; otherwise
\* exactly one bound moves to that fraction.
C9_Turn ==
    (pc = "bisect" /\ pc' = "bisect") =>
        /\ iteration' = iteration + 1
        /\ FLeq(lower_bound, fraction') /\ FLeq(fraction', upper_bound)
        /\ fraction' = ExactHalfSum
        /\ done' = FLess(FAbs(FSub(tail_risk', Target)), Lit(3, 1000))
        /\ done' => lower_bound' = lower_bound /\ upper_bound' = upper_bound
        /\ (~done' /\ FLess(Target, tail_risk'))
             => upper_bound' = fraction' /\ lower_bound' = lower_bound
        /\ (~done' /\ ~FLess(Target, tail_risk'))
             => lower_bound' = fraction' /\ upper_bound' = upper_bound

\* C9 amended: every turn estimates the double nearest the midpoint and
\* moves exactly one bound to it unless the tolerance is met;
\* 0 <= lower_bound <= upper_bound <= 10 always (the bounds can meet), both
\* start at 0 and 10 in every repetition, and the width is 10/2^k for the
\* first k <= MantissaBits - 3 turns (50 for a double), not for all k.
C9_BisectionTurnsAndBounds == [][C9_Turn]_vars /\ []C9_Bounds

\* Rounding has made the bounds meet.
C9_Witness ==
    /\ pc = "bisect" /\ trades # <<>>
    /\ iteration > MantissaBits /\ lower_bound = upper_bound

\* C4 as stated: given an empty series the engine refuses to run: nothing
\* is drawn, nothing is simulated, and it does not fault.
C4_EmptySeriesRefused ==
    trades = <<>> => rng.pos = 0 /\ pc \notin {"car", "print", "return", "fault"}

\* C7: one CAR25 is written per completed repetition, in order, after the
\* repetition's solver and CAR loop and before the next repetition's first
\* bisection turn; at the end the R values written are the R values
\* recorded, paired with R safe fractions, and the ones averaged.
C7_OneProgressValuePerRepetition ==
    /\ pc \in {"rep", "bisect", "car"} =>
         /\ Len(stdout) = rep /\ stdout = CAR25_list
         /\ Len(safe_f_list) = (IF pc = "car" THEN rep + 1 ELSE rep)
    /\ pc = "print" =>
         /\ Len(stdout) = rep /\ CAR25_list = Append(stdout, CAR25)
         /\ Len(safe_f_list) = rep + 1
    /\ pc = "return" =>
         /\ rep = number_repetitions
         /\ Len(stdout) = number_repetitions
         /\ Len(safe_f_list) = number_repetitions
         /\ stdout = CAR25_list
         /\ CAR25_mean = FDiv(Accumulate(stdout, F0), FromInt(Len(stdout)))
         /\ CAR25_stdev = computeStdDev(stdout, CAR25_mean)

\* Two repetitions have written two different values.
C7_Witness ==
    /\ pc = "return" /\ trades # <<>>
    /\ number_repetitions = 2 /\ Len(stdout) = 2
    /\ stdout[1] # stdout[2]

\* The generator is seeded once, before the first repetition, and a
\* repetition of k turns has made (k + 1) * DrawsPerPass draws when its CAR
\* loop is over: k estimates and one CAR loop, DrawsPerPass each.
C10_Counts ==
    /\ pc \in {"main", "call", "exit1"} => rng = [seeded |-> 0, pos |-> 0]
    /\ pc \notin {"main", "call", "exit1"} => rng.seeded = 1
    /\ pc \in {"bisect", "car"} => rng.pos - pos_at_rep_start = iteration * DrawsPerPass
    /\ pc = "print" => rng.pos - pos_at_rep_start = (iteration + 1) * DrawsPerPass

\* A step never reseeds or rewinds the generator, and advances it by a whole
\* number of curves of number_trades_in_forecast draws each.
C10_Step ==
    /\ rng'.pos >= rng.pos
    /\ pc # "call" => rng'.seeded = rng.seeded
    /\ rng'.pos # rng.pos => rng'.pos - rng.pos = number_equity_in_CDF * number_trades_in_forecast

\* C10: one generator, seeded exactly once before the first repetition and
\* never reseeded; its count of index draws never decreases; every curve
\* takes number_trades_in_forecast draws; a repetition whose solver ran k
\* turns advances it by (k + 1) * number_equity_in_CDF *
\* number_trades_in_forecast draws.
C10_OneGeneratorDrawCounts == [][C10_Step]_vars /\ []C10_Counts

\* The second repetition ends, after several turns, on a generator the
\* first has advanced.
C10_Witness ==
    /\ pc = "print" /\ trades # <<>>
    /\ rep = 1 /\ iteration > 1 /\ pos_at_rep_start > 0
    /\ number_trades_in_forecast > 1

\* C3 as stated: every value of a simulated curve is positive and its
\* drawdown lies in [0, 1), for any fraction in [0, 10].
C3_DrawdownBelowOne ==
    pc = "estimated" =>
        \A i \in DOMAIN dd_samples :
            /\ \A j \in DOMAIN dd_samples[i].equity : FLess(F0, dd_samples[i].equity[j])
            /\ FLeq(F0, dd_samples[i].max_drawdown)
            /\ FLess(dd_samples[i].max_drawdown, FromInt(1))

\* Samples of the last estimate whose drawdown exceeds the tolerance.
Exceeding == {i \in DOMAIN dd_samples : FLess(drawdown_tolerance, dd_samples[i].max_drawdown)}

\* C6: at fraction 0 every value of every simulated curve is
\* initial_capital, every drawdown is 0 and the tail probability is 0; in
\* general the tail probability is count_exceed / number_equity_in_CDF with
\* 0 <= count_exceed <= number_equity_in_CDF, so it lies in [0, 1].
C6_ZeroFractionZeroTail ==
    pc = "estimated" =>
        /\ Len(dd_samples) = number_equity_in_CDF
        /\ \A i \in DOMAIN dd_samples : Len(dd_samples[i].equity) = number_trades_in_forecast + 1
        /\ fraction = F0 =>
             /\ \A i \in DOMAIN dd_samples :
                  /\ \A j \in DOMAIN dd_samples[i].equity : dd_samples[i].equity[j] = initial_capital
                  /\ dd_samples[i].max_drawdown = F0
             /\ tail_risk = F0
        /\ tail_risk = DivRound(Cardinality(Exceeding), 0, number_equity_in_CDF, 0)
        /\ FLeq(F0, tail_risk) /\ FLeq(tail_risk, FromInt(1))

\* Fraction 0 with a series that loses and gains, two curves of two trades.
C6_Witness ==
    /\ pc = "estimated" /\ fraction = F0
    /\ trades = <<Loss, Gain>>
    /\ number_trades_in_forecast = 2 /\ number_equity_in_CDF = 2
    /\ rng.pos = 4 /\ tail_risk = F0

\* Values of a list that are <= v.
AtMost(list, v) == {i \in DOMAIN list : FLeq(list[i], v)}

Occurrences(list, v) == Cardinality({i \in DOMAIN list : list[i] = v})

\* What lines 202-206 make of a CAR list of count >= 1 values.
C5_Step ==
    pc = "percentile" =>
        LET count == Len(CAR_list)
            rank == (count + 3) \div 4
        IN  /\ Len(CAR_list') = count
            /\ \A i \in DOMAIN CAR_list : Occurrences(CAR_list', CAR_list[i]) = Occurrences(CAR_list, CAR_list[i])
            /\ \A i \in 1 .. (count - 1) : FLeq(CAR_list'[i], CAR_list'[i + 1])
            /\ rank \in 1 .. count
            /\ CAR25' = CAR_list'[rank]
            /\ 4 * Cardinality(AtMost(CAR_list, CAR25')) >= count
            /\ \A i \in DOMAIN CAR_list :
                 4 * Cardinality(AtMost(CAR_list, CAR_list[i])) >= count => FLeq(CAR25', CAR_list[i])
            /\ CAR25_list' = Append(CAR25_list, CAR25')

\* C5: the CAR25 recorded is the element of rank ceil(0.25 * count) of the
\* sorted CAR list, and the smallest value of the list that at least 25% of
\* the outcomes do not exceed.
C5_CAR25IsRankCeilQuarter == [][C5_Step]_vars

\* The fixture [1..8], given in descending order, yields 2.
C5_Witness ==
    /\ pc = "print" /\ Len(CAR_list) = 8
    /\ CAR_list = [i \in 1 .. 8 |-> FromInt(i)]
    /\ CAR25 = FromInt(2) /\ CAR25_list = <<FromInt(2)>>

\* C8: calculateCAGR returns 0 when initial_equity, final_equity or years
\* is not positive, and the percentage otherwise; a simulated curve that
\* ends at or below 0 puts a 0 into the CAR list.
C8_NonPositiveGivesZero ==
    /\ pc = "cagr_done" =>
         LET a == cagr_args
             positive == FLess(F0, a.initial_equity) /\ FLess(F0, a.final_equity) /\ FLess(F0, a.years)
         IN  /\ ~positive => cagr_result = F0
             /\ positive =>
                  /\ FLeq(FromInt(-100), cagr_result)
                  /\ FLess(a.initial_equity, a.final_equity) => FLess(F0, cagr_result)
                  /\ FLess(a.final_equity, a.initial_equity) => FLess(cagr_result, F0)
                  /\ a.final_equity = a.initial_equity => cagr_result = F0
             /\ (a.initial_equity = FromInt(1) /\ a.final_equity = FromInt(4) /\ a.years = FromInt(2))
                  => cagr_result = FromInt(100)
             /\ (a.initial_equity = FromInt(4) /\ a.final_equity = FromInt(1) /\ a.years = FromInt(1))
                  => cagr_result = FromInt(-75)
    /\ pc = "print" =>
         /\ Len(car_samples) = number_equity_in_CDF
         /\ Len(CAR_list) = number_equity_in_CDF
         /\ \A i \in DOMAIN car_samples :
              /\ (FLeq(car_samples[i].final, F0) \/ number_days_in_forecast <= 0)
                   => car_samples[i].CAGR = F0
              /\ Occurrences(CAR_list, car_samples[i].CAGR)
                   = Cardinality({j \in DOMAIN car_samples : car_samples[j].CAGR = car_samples[i].CAGR})

\* A curve has ended below 0 in a forecast of positive length, beside one
\* that ended above.
C8_Witness ==
    /\ pc = "print" /\ number_days_in_forecast = 504
    /\ \E i, j \in DOMAIN car_samples :
         /\ FLess(car_samples[i].final, F0) /\ car_samples[i].CAGR = F0
         /\ FLess(F0, car_samples[j].final) /\ car_samples[j].CAGR # F0

====
